---------------------------- MODULE Spec2Model ----------------------------
(***************************************************************************)
(* Model of the pharmacy inventory counting app: gs.py (the data layer     *)
(* over one Google Sheets workbook) and pages/1_藥師盤點.py (the counting  *)
(* page).                                                                  *)
(*                                                                         *)
(* Text is a sequence of one-character strings, so that strip(), isdigit() *)
(* and str() are computed, not assumed.  A worksheet is the sequence of    *)
(* its stored rows, row 1 being what every reader takes as the header; a   *)
(* stored row is [kind, cells], kind being a history field: "H" for a row  *)
(* written as a header (by hand, or by insert_row), "D" for a data row.    *)
(* A Python dict is a sequence of <<key, value>> pairs in insertion order. *)
(***************************************************************************)
EXTENDS Integers, Sequences, FiniteSets, TLC

VARIABLES
    sheet,    \* the device worksheet: Seq of stored rows
    audit,    \* the Audit_Log worksheet: Seq of stored rows
    cache,    \* st.cache_data entry of read_df(sheet_name), shared by all
              \* sessions of the server process
    now,      \* wall clock, in seconds
    procs,    \* for each concurrent caller of gs.py: where it is in its call
    last      \* history: the operation that made the last step

vars == <<sheet, audit, cache, now, procs, last>>

-----------------------------------------------------------------------------
(* Bounds of the model *)

MaxRows == 3      \* stored rows (header included) beyond which nothing is added
MaxClock == 5     \* the clock stops here
MaxQty == 1       \* largest quantity typed into a number_input
MaxCalls == 1     \* calls of gs.py each concurrent session makes

(* Program constants *)

TTL == 5          \* @st.cache_data(ttl=5)

-----------------------------------------------------------------------------
(* Text *)

S(c) == <<c>>
Empty == <<>>

WhiteSpace == {" "}
Digits == <<"0", "1", "2", "3", "4", "5", "6", "7", "8", "9">>
Upper == [c \in {"a", "b", "A", "B"} |->
             CASE c = "a" -> "A" [] c = "b" -> "B" [] OTHER -> c]

\* pd.NA: a value that is no text (its one element is not a character)
NA == <<"<NA>">>
\* str(pd.NA), what astype(str) makes of a missing value
NAText == <<"<", "N", "A", ">">>

RECURSIVE LStrip(_)
LStrip(s) == IF s # <<>> /\ Head(s) \in WhiteSpace THEN LStrip(Tail(s)) ELSE s

RECURSIVE RStrip(_)
RStrip(s) == IF s # <<>> /\ s[Len(s)] \in WhiteSpace
             THEN RStrip(SubSeq(s, 1, Len(s) - 1)) ELSE s

\* str.strip()
Strip(s) == RStrip(LStrip(s))

\* str.isdigit()
IsDigit(s) == s # <<>> /\ \A i \in 1..Len(s) : \E d \in 1..10 : Digits[d] = s[i]

DigitVal(c) == (CHOOSE d \in 1..10 : Digits[d] = c) - 1

RECURSIVE ToInt(_)
\* int(s) for a text of digits
ToInt(s) == IF s = <<>> THEN 0
            ELSE 10 * ToInt(SubSeq(s, 1, Len(s) - 1)) + DigitVal(s[Len(s)])

RECURSIVE DecStr(_)
\* str(n) for an int n >= 0
DecStr(n) == IF n < 10 THEN <<Digits[n + 1]>>
             ELSE DecStr(n \div 10) \o <<Digits[(n % 10) + 1]>>

\* A Python int as a dict value; every other value is a text
PyInt(n) == <<"int", n>>
IsInt(v) == Len(v) = 2 /\ v[1] = "int"

\* str(v); also the text a cell shows after v was written to it
Text(v) == IF IsInt(v) THEN DecStr(v[2]) ELSE v

-----------------------------------------------------------------------------
(* Python dict *)

Keys(rec) == [i \in 1..Len(rec) |-> rec[i][1]]
KeySet(rec) == {rec[i][1] : i \in 1..Len(rec)}
InSeq(x, s) == \E i \in 1..Len(s) : s[i] = x

\* record.get(k, default)
Get(rec, k, default) ==
    IF k \in KeySet(rec)
    THEN rec[CHOOSE i \in 1..Len(rec) : rec[i][1] = k][2]
    ELSE default

-----------------------------------------------------------------------------
(* The worksheet, as gspread shows it *)

Max(a, b) == IF a > b THEN a ELSE b

HRow(cells) == [kind |-> "H", cells |-> cells]
DRow(cells) == [kind |-> "D", cells |-> cells]

RECURSIVE Width(_)
Width(ws) == IF ws = <<>> THEN 0 ELSE Max(Len(Head(ws).cells), Width(Tail(ws)))

PadTo(cells, w) == [i \in 1..w |-> IF i <= Len(cells) THEN cells[i] ELSE Empty]

\* ws.get_all_values(): every stored row, short rows filled with "" to the
\* width of the widest one
GetAllValues(ws) == [i \in 1..Len(ws) |-> PadTo(ws[i].cells, Width(ws))]

\* ws.delete_rows(1)
DeleteRow1(ws) == IF ws = <<>> THEN ws ELSE Tail(ws)

\* ws.insert_row(values, 1)
InsertRow1(ws, values) == <<HRow(values)>> \o ws

\* the texts the cells show once the values are written
Texts(values) == [i \in 1..Len(values) |-> Text(values[i])]

\* ws.append_row(row)
AppendValues(ws, values) == Append(ws, DRow(Texts(values)))

\* ws.update("A{n}:{col}{n}", [values]): cells 1..len(values) of row n; a row
\* below the last stored one leaves empty rows in between
UpdateRow(ws, n, values) ==
    LET grown == [i \in 1..Max(Len(ws), n) |->
                     IF i <= Len(ws) THEN ws[i] ELSE DRow(<<>>)]
        old == grown[n].cells
        new == [i \in 1..Max(Len(old), Len(values)) |->
                   IF i <= Len(values) THEN Text(values[i]) ELSE old[i]]
    IN [grown EXCEPT ![n].cells = new]

\* [record.get(h, "") for h in headers]
RowOf(rec, headers) == [i \in 1..Len(headers) |-> Get(rec, headers[i], Empty)]

-----------------------------------------------------------------------------
(* read_df and its cache *)

EmptyDF == [columns |-> <<>>, rows |-> <<>>]

\* df.replace("", pd.NA)
ReplaceBlank(row) == [i \in 1..Len(row) |-> IF row[i] = Empty THEN NA ELSE row[i]]

\* The body of read_df: the whole worksheet as a DataFrame.  A missing
\* worksheet and an empty one both give the empty DataFrame.
FreshDf(ws) ==
    LET rows == GetAllValues(ws)
    IN IF rows = <<>> THEN EmptyDF
       ELSE [columns |-> rows[1],
             rows |-> [i \in 1..(Len(rows) - 1) |-> ReplaceBlank(rows[i + 1])]]

\* st.cache_data.clear(): no entry
NoCache == [valid |-> FALSE, at |-> 0, df |-> EmptyDF]

\* An entry c is served until it is ttl seconds old
CacheHit(c) == c.valid /\ now - c.at < TTL

\* read_df(sheet_name) as the caller sees it, the cache being c and the
\* worksheet ws
ReadDf(c, ws) == IF CacheHit(c) THEN c.df ELSE FreshDf(ws)

\* the cache after that call
CacheAfterRead(c, ws) ==
    IF CacheHit(c) THEN c ELSE [valid |-> TRUE, at |-> now, df |-> FreshDf(ws)]

\* df.empty
DfEmpty(df) == df.columns = <<>> \/ df.rows = <<>>

ColIndex(df, k) == CHOOSE i \in 1..Len(df.columns) : df.columns[i] = k

\* df[k].astype(str).fillna("") for one row: astype(str) has already turned
\* pd.NA into the text "<NA>" when fillna looks for missing values
KeyText(df, r, k) ==
    LET v == df.rows[r][ColIndex(df, k)]
    IN IF v = NA THEN NAText ELSE v

-----------------------------------------------------------------------------
(* Column names of the device worksheet (pages/1_藥師盤點.py, lines 60-65) *)

\* A column name is a text too (it is stored in a cell of row 1), written
\* here as one token.
COL_NAME == <<"name">>     \* "藥品名稱"
COL_LOC == <<"loc">>       \* "儲位"
COL_QTY == <<"qty">>       \* "盤點數量"
COL_OWNER == <<"owner">>   \* "盤點人"
COL_NOTE == <<"note">>     \* "備註"
COL_TIME == <<"time">>     \* "盤點時間"

-----------------------------------------------------------------------------
(* gs.py: the writers *)

\* headers = values[0] if values else []
HeadersOf(ws) == IF ws = <<>> THEN <<>> ELSE GetAllValues(ws)[1]

\* missing = [k for k in record.keys() if k not in headers]
Missing(rec, headers) == SelectSeq(Keys(rec), LAMBDA k : ~InSeq(k, headers))

\* the slip "new_headers = missing": the columns already there are dropped
NewHeadersDropsOld(headers, missing) == missing

\* new_headers = headers + missing
NewHeaders(headers, missing) == headers \o missing

\* _normalize_headers(ws, record): the worksheet afterwards, and the list
\* of columns returned
NormalizeHeaders(ws, rec) ==
    LET headers == HeadersOf(ws)
        missing == Missing(rec, headers)
    IN IF missing # <<>>
       THEN [ws |-> InsertRow1(DeleteRow1(ws), NewHeaders(headers, missing)),
             headers |-> NewHeaders(headers, missing)]
       ELSE [ws |-> ws, headers |-> headers]

\* append_row(sheet_name, record): the worksheet afterwards
AppendRow(ws, rec) ==
    LET n == NormalizeHeaders(ws, rec)
    IN AppendValues(n.ws, RowOf(rec, n.headers))

\* mask: for every key column, the stored text equals str(record.get(k, ""))
Mask(df, keyCols, rec) ==
    [r \in 1..Len(df.rows) |->
        \A i \in 1..Len(keyCols) :
            KeyText(df, r, keyCols[i]) = Text(Get(rec, keyCols[i], Empty))]

\* mask[mask].index[0], the df index (from 0) of the first row that matches
FirstIndex(mask) == (CHOOSE r \in 1..Len(mask) :
                        mask[r] /\ \A q \in 1..(r - 1) : ~mask[q]) - 1

\* upsert_row from "df = read_df(sheet_name)" on, c0 being the cache and
\* headers what _normalize_headers returned: the worksheet and the cache
\* afterwards, what was done, and the worksheet row written
UpsertBody(c0, ws, headers, keyCols, rec) ==
    LET df == ReadDf(c0, ws)
        c == CacheAfterRead(c0, ws)
        values == RowOf(rec, headers)
    IN IF DfEmpty(df)
       THEN [ws |-> AppendValues(ws, values), cache |-> c,
             outcome |-> "append", pos |-> Len(ws) + 1]
       ELSE IF \E i \in 1..Len(keyCols) : ~InSeq(keyCols[i], df.columns)
       THEN \* df[k] raises KeyError; the header may already be rewritten
            [ws |-> ws, cache |-> c, outcome |-> "KeyError", pos |-> 0]
       ELSE LET mask == Mask(df, keyCols, rec)
            IN IF \E r \in 1..Len(mask) : mask[r]
               THEN LET idx == FirstIndex(mask)
                        row_number == idx + 2
                    IN [ws |-> UpdateRow(ws, row_number, values), cache |-> c,
                        outcome |-> "update", pos |-> row_number]
               ELSE [ws |-> AppendValues(ws, values), cache |-> c,
                     outcome |-> "append", pos |-> Len(ws) + 1]

\* upsert_row(sheet_name, key_cols, record)
UpsertRow(c0, ws, keyCols, rec) ==
    LET n == NormalizeHeaders(ws, rec)
    IN UpsertBody(c0, n.ws, n.headers, keyCols, rec)

-----------------------------------------------------------------------------
(* History of the last step.  n flips at every call, so that a step that    *)
(* repeats the previous call is still seen as a step; before is the header  *)
(* the call found.  For a step of the page: user is the session's operator, *)
(* row the worksheet row of the rendered row that was saved, input what was *)
(* typed, wrote whether the device worksheet was written, api whether the   *)
(* Sheets API served append_audit.                                          *)

NoRec == <<>>

Last(op, keys, rec, outcome, pos) ==
    [n |-> 1 - last.n, op |-> op, keys |-> keys, rec |-> rec,
     outcome |-> outcome, pos |-> pos, before |-> <<>>,
     user |-> Empty, row |-> 0, input |-> <<>>, wrote |-> FALSE, api |-> TRUE]

Last0 == [n |-> 0, op |-> "init", keys |-> <<>>, rec |-> NoRec,
          outcome |-> "none", pos |-> 0, before |-> <<>>,
          user |-> Empty, row |-> 0, input |-> <<>>, wrote |-> FALSE, api |-> TRUE]

Idle == [pc |-> "idle", calls |-> 0, op |-> "none", keys |-> <<>>, rec |-> NoRec,
         headers |-> <<>>, missing |-> <<>>]

Procs == {1, 2}

-----------------------------------------------------------------------------
(* The data layer called by one caller at a time *)

StoreVals == {Empty, S("A")}

\* the dicts passed to append_row / upsert_row: some with every column, one
\* without a key column, one naming a new column first
StoreKeyOrders == {<<COL_NAME, COL_LOC>>, <<COL_NAME, COL_LOC, COL_QTY>>,
                   <<COL_QTY, COL_NAME>>}

\* A row with no text in any cell is not a row of the worksheet: the API
\* returns no trailing empty rows.  The records written hold some text.
StoreRecords ==
    UNION {{[i \in 1..Len(ks) |-> <<ks[i], vs[i]>>] :
               vs \in {v \in [1..Len(ks) -> StoreVals] :
                          \E i \in 1..Len(ks) : v[i] # Empty}} :
           ks \in StoreKeyOrders}

StoreKeyCols == {<<COL_NAME, COL_LOC>>}

\* The worksheets the calls start from: none yet, or a header typed by hand
\* and at most one row under it
StoreInitCells == {<<S("A"), Empty>>, <<S("A"), S("A")>>, <<S("B"), S("A")>>}

StoreInitSheets ==
    {<<>>}
    \cup {<<HRow(<<COL_NAME, COL_LOC>>)>> \o [i \in 1..k |-> DRow(f[i])] :
             k \in 0..1, f \in [1..1 -> StoreInitCells]}
    \cup {<<HRow(<<COL_NAME>>)>> \o [i \in 1..k |-> DRow(<<S("A")>>)] : k \in 0..1}

InitStore ==
    /\ sheet \in StoreInitSheets
    /\ audit = <<>>
    /\ cache = NoCache
    /\ now = 0
    /\ procs = [p \in Procs |-> Idle]
    /\ last = Last0

\* Time passes between two calls: as long as an entry of the cache lives
Tick ==
    /\ now + TTL <= MaxClock
    /\ now' = now + TTL
    /\ UNCHANGED <<sheet, audit, cache, procs, last>>

\* read_df(sheet_name)
StoreReadDf ==
    /\ cache' = CacheAfterRead(cache, sheet)
    /\ last' = Last("read_df", <<>>, NoRec, "none", 0)
    /\ UNCHANGED <<sheet, audit, now, procs>>

\* st.cache_data.clear()
StoreClear ==
    /\ cache' = NoCache
    /\ last' = Last("clear", <<>>, NoRec, "none", 0)
    /\ UNCHANGED <<sheet, audit, now, procs>>

\* append_row(sheet_name, rec)
StoreAppendRow(rec) ==
    /\ Len(sheet) < MaxRows
    /\ sheet' = AppendRow(sheet, rec)
    /\ last' = [Last("append_row", <<>>, rec, "append", Len(sheet'))
                   EXCEPT !.before = HeadersOf(sheet)]
    /\ UNCHANGED <<audit, cache, now, procs>>

\* upsert_row(sheet_name, keyCols, rec)
StoreUpsertRow(keyCols, rec) ==
    /\ Len(sheet) < MaxRows
    /\ LET u == UpsertRow(cache, sheet, keyCols, rec)
       IN /\ sheet' = u.ws
          /\ cache' = u.cache
          /\ last' = [Last("upsert_row", keyCols, rec, u.outcome, u.pos)
                         EXCEPT !.before = HeadersOf(sheet)]
    /\ UNCHANGED <<audit, now, procs>>

NextStore ==
    \/ Tick
    \/ StoreReadDf
    \/ StoreClear
    \/ \E rec \in StoreRecords : StoreAppendRow(rec)
    \/ \E keyCols \in StoreKeyCols, rec \in StoreRecords : StoreUpsertRow(keyCols, rec)

SpecStore == InitStore /\ [][NextStore]_vars

-----------------------------------------------------------------------------
(* pages/1_藥師盤點.py: one run of the script, from the top to st.rerun()  *)

Device == <<"2", "1">>              \* params.get("device", ["21"])
Unclassified == <<"unclassified">>  \* "未分類"
NewItem == <<"new item">>           \* "新增項目"

\* extract_zone(loc)
ExtractZone(loc) ==
    IF loc = NA THEN Unclassified
    ELSE LET s == Strip(loc)
         IN IF s # <<>> /\ s[1] \in DOMAIN Upper THEN <<Upper[s[1]]>>
            ELSE Unclassified

\* row.get(k, "") on row r of df
Cell(df, r, k) ==
    IF InSeq(k, df.columns) THEN df.rows[r][ColIndex(df, k)] ELSE Empty

\* the choices of the zone selectbox
Zones(df) ==
    IF DfEmpty(df) \/ ~InSeq(COL_LOC, df.columns) THEN {Unclassified}
    ELSE LET zs == {ExtractZone(Cell(df, r, COL_LOC)) :
                       r \in {q \in 1..Len(df.rows) : Cell(df, q, COL_LOC) # NA}}
         IN IF zs = {} THEN {Unclassified} ELSE zs

Fold(s) == [i \in 1..Len(s) |-> IF s[i] \in DOMAIN Upper THEN Upper[s[i]] ELSE s[i]]

\* str.contains(keyword, case=False), the keyword being plain letters
Contains(s, keyword) ==
    \E i \in 1..(Len(s) - Len(keyword) + 1) :
        SubSeq(Fold(s), i, i + Len(keyword) - 1) = Fold(keyword)

\* code points of the characters of the model
Code == [c \in {" ", "0", "1", "2", "3", "A", "B", "T", "a", "b", "n"} |->
            CASE c = " " -> 32 [] c = "0" -> 48 [] c = "1" -> 49 [] c = "2" -> 50
              [] c = "3" -> 51 [] c = "A" -> 65 [] c = "B" -> 66 [] c = "T" -> 84
              [] c = "a" -> 97 [] c = "b" -> 98 [] c = "n" -> 110]

RECURSIVE StrLess(_, _)
\* s < t for two Python strings
StrLess(s, t) ==
    IF t = <<>> THEN FALSE
    ELSE IF s = <<>> THEN TRUE
    ELSE IF s[1] # t[1] THEN Code[s[1]] < Code[t[1]]
    ELSE StrLess(Tail(s), Tail(t))

\* a sorts before b in one column, na_position="last"
ValLess(a, b) == a # NA /\ (b = NA \/ StrLess(a, b))

\* row p sorts strictly before row q by [COL_LOC, COL_NAME]
RowLess(df, p, q) ==
    LET lp == Cell(df, p, COL_LOC)
        lq == Cell(df, q, COL_LOC)
    IN \/ ValLess(lp, lq)
       \/ lp = lq /\ ValLess(Cell(df, p, COL_NAME), Cell(df, q, COL_NAME))

RECURSIVE InsertSorted(_, _, _)
InsertSorted(df, sorted, r) ==
    IF sorted = <<>> THEN <<r>>
    ELSE IF RowLess(df, r, Head(sorted)) THEN <<r>> \o sorted
    ELSE <<Head(sorted)>> \o InsertSorted(df, Tail(sorted), r)

RECURSIVE SortRows(_, _)
\* df_view.sort_values(by=[COL_LOC, COL_NAME], na_position="last"); rows
\* that compare equal keep their order
SortRows(df, rs) ==
    IF rs = <<>> THEN <<>>
    ELSE InsertSorted(df, SortRows(df, SubSeq(rs, 1, Len(rs) - 1)), rs[Len(rs)])

AllRows(df) == [r \in 1..Len(df.rows) |-> r]

\* df_view after the zone, keyword and hide-completed filters
Filtered(df, zone, keyword, hide) ==
    LET byZone == SelectSeq(AllRows(df),
                     LAMBDA r : ExtractZone(Cell(df, r, COL_LOC)) = zone)
        byName == IF keyword = Empty THEN byZone
                  ELSE SelectSeq(byZone, LAMBDA r :
                          /\ Cell(df, r, COL_NAME) # NA
                          /\ Contains(Cell(df, r, COL_NAME), keyword))
    IN IF hide
       THEN SelectSeq(byName, LAMBDA r :
               \/ Cell(df, r, COL_QTY) = NA
               \/ Strip(Cell(df, r, COL_QTY)) = Empty)
       ELSE byName

\* the rows (df row numbers, from 1) in the order they are rendered
View(df, zone, keyword, hide, sort) ==
    LET v == Filtered(df, zone, keyword, hide)
    IN IF sort /\ InSeq(COL_LOC, df.columns) THEN SortRows(df, v) ELSE v

\* lines 120-142 raise KeyError: a column they index is not in df_view
\* (for an empty df, the zone column that line 124 did not add)
FilterRaises(df, zone, keyword, hide, sort) ==
    \/ DfEmpty(df)
    \/ ~InSeq(COL_LOC, df.columns)
    \/ keyword # Empty /\ ~InSeq(COL_NAME, df.columns)
    \/ /\ hide
       /\ ~InSeq(COL_QTY, df.columns)
       /\ SelectSeq(AllRows(df),
              LAMBDA r : ExtractZone(Cell(df, r, COL_LOC)) = zone) # <<>>
    \/ sort /\ ~InSeq(COL_NAME, df.columns)
            /\ Filtered(df, zone, keyword, hide) # <<>>

\* lines 185-190: str(x or "") raises TypeError when x is pd.NA (bool(pd.NA))
RowRaises(df, r) ==
    \E k \in {COL_NAME, COL_LOC, COL_NOTE, COL_OWNER, COL_TIME} :
        Cell(df, r, k) = NA

\* line 193
CanEdit(owner_existing, user) ==
    Strip(owner_existing) = Empty \/ Strip(owner_existing) = Strip(user)

\* datetime.now().strftime("%Y-%m-%d %H:%M:%S")
TimeText(t) == <<"T">> \o DecStr(t)

AuditHeaders == <<S("ts"), S("device"), S("zone"), S("drug_code"), S("field"),
                  S("old_value"), S("new_value"), S("user")>>

\* append_audit(log): the Audit_Log worksheet afterwards
AppendAudit(ws, log) ==
    LET ensured == IF ws = <<>> THEN <<HRow(AuditHeaders)>> ELSE ws
    IN AppendValues(ensured, RowOf(log, AuditHeaders))

-----------------------------------------------------------------------------
(* The counting page used by the sessions of one server process *)

MaxAudit == 2     \* stored rows of Audit_Log beyond which nothing is saved

Users == {S("A"), S("B")}
Notes == {S("n")}
Names == {Empty, S("a")}
Locs == {S(" "), S("B")}

\* what the filter widgets hold: as the page first shows them, or with a
\* keyword typed, completed rows hidden and the sort switched off
Filters == {[keyword |-> Empty, hide |-> FALSE, sort |-> TRUE],
            [keyword |-> S("a"), hide |-> TRUE, sort |-> FALSE]}

FullHeader == <<COL_NAME, COL_LOC, COL_QTY, COL_NOTE, COL_OWNER, COL_TIME>>

\* The device worksheet as the supervisor prepared it: the list of items
\* alone, or the six columns with one item counted or partly filled in; no
\* two rows with the same item name and location.
PageInitSheets ==
    {<<HRow(<<COL_NAME, COL_LOC>>), DRow(<<S("a"), S("B")>>)>>}
    \cup {<<HRow(FullHeader), DRow(<<S("a"), S("B"), q, S("n"), o, S("T")>>)>> :
             q \in {Empty, S("1")}, o \in {Empty, S(" "), S("A")}}

InitPage ==
    /\ sheet \in PageInitSheets
    /\ audit = <<>>
    /\ cache = NoCache
    /\ now = 0
    /\ procs = [p \in Procs |-> Idle]
    /\ last = Last0

\* Row r of df is rendered with its save button: for some choice of the
\* zone and some state of the filter widgets, lines 120-142 do not raise,
\* the row is in df_view and no row rendered before it raises
Rendered(df, r) ==
    \E zone \in Zones(df), f \in Filters :
        /\ ~FilterRaises(df, zone, f.keyword, f.hide, f.sort)
        /\ LET view == View(df, zone, f.keyword, f.hide, f.sort)
           IN \E j \in 1..Len(view) :
                  /\ view[j] = r
                  /\ \A i \in 1..j : ~RowRaises(df, view[i])

\* The run gets as far as the add-new-item expander: every row of df_view
\* is rendered
ExpanderReached(df) ==
    \E zone \in Zones(df), f \in Filters :
        /\ ~FilterRaises(df, zone, f.keyword, f.hide, f.sort)
        /\ LET view == View(df, zone, f.keyword, f.hide, f.sort)
           IN \A i \in 1..Len(view) : ~RowRaises(df, view[i])

\* A run without a click (a page load, a filter changed): line 71 only
LoadPage ==
    /\ cache' = CacheAfterRead(cache, sheet)
    /\ last' = Last("load", <<>>, NoRec, "none", 0)
    /\ UNCHANGED <<sheet, audit, now, procs>>

\* The run after a click on the save button of row r of df (df.index r - 1),
\* by the session of operator user, the widgets of the row holding new_qty
\* and new_note; apiOk: the Sheets API serves append_audit
Save(user, r, new_qty, new_note, apiOk) ==
    LET df == ReadDf(cache, sheet)
        c1 == CacheAfterRead(cache, sheet)
        name == Cell(df, r, COL_NAME)
        loc == Cell(df, r, COL_LOC)
        qty == Cell(df, r, COL_QTY)
        owner_existing == Cell(df, r, COL_OWNER)
        key_cols == <<COL_NAME, COL_LOC>>
        new_val == DecStr(new_qty)
        payload == <<<<COL_NAME, name>>, <<COL_LOC, loc>>,
                     <<COL_QTY, PyInt(new_qty)>>, <<COL_NOTE, new_note>>,
                     <<COL_OWNER, user>>, <<COL_TIME, TimeText(now)>>>>
        h == [Last("save", key_cols, payload, "none", 0)
                EXCEPT !.user = user, !.row = r + 1, !.api = apiOk,
                       !.before = HeadersOf(sheet)]
    IN /\ r \in 1..Len(df.rows)
       /\ Rendered(df, r)
       /\ CanEdit(owner_existing, user)
       /\ IF qty = NA
          THEN \* line 238: str(qty or "") raises TypeError
               /\ cache' = c1
               /\ last' = [h EXCEPT !.outcome = "TypeError"]
               /\ UNCHANGED <<sheet, audit>>
          ELSE LET old_val == qty
                   u == UpsertRow(c1, sheet, key_cols, payload)
                   log == <<<<S("ts"), TimeText(now)>>,
                            <<S("device"), Device>>,
                            <<S("zone"), ExtractZone(loc)>>,
                            <<S("drug_code"), name>>,
                            <<S("field"), COL_QTY>>,
                            <<S("old_value"), old_val>>,
                            <<S("new_value"), new_val>>,
                            <<S("user"), user>>>>
                   raised == u.outcome = "KeyError"
                             \/ (old_val # new_val /\ ~apiOk)
               IN /\ (old_val # new_val /\ ~raised) => Len(audit) < MaxAudit
                  /\ sheet' = u.ws
                  /\ audit' = IF old_val # new_val /\ ~raised
                              THEN AppendAudit(audit, log)
                              ELSE audit
                  /\ cache' = IF raised THEN u.cache ELSE NoCache
                  /\ last' = [h EXCEPT !.outcome = u.outcome, !.pos = u.pos,
                                       !.wrote = u.outcome # "KeyError"]
       /\ UNCHANGED <<now, procs>>

\* The run after a click on the add button
AddItem(user, new_name, new_loc, new_qty_val, new_note_val, apiOk) ==
    LET df == ReadDf(cache, sheet)
        c1 == CacheAfterRead(cache, sheet)
        payload == <<<<COL_NAME, Strip(new_name)>>, <<COL_LOC, Strip(new_loc)>>,
                     <<COL_QTY, PyInt(new_qty_val)>>,
                     <<COL_NOTE, Strip(new_note_val)>>, <<COL_OWNER, user>>,
                     <<COL_TIME, TimeText(now)>>>>
        log == <<<<S("ts"), TimeText(now)>>,
                 <<S("device"), Device>>,
                 <<S("zone"), ExtractZone(new_loc)>>,
                 <<S("drug_code"), Strip(new_name)>>,
                 <<S("field"), NewItem>>,
                 <<S("old_value"), Empty>>,
                 <<S("new_value"), COL_QTY \o <<"=">> \o DecStr(new_qty_val)>>,
                 <<S("user"), user>>>>
        h == [Last("add", <<>>, payload, "none", 0)
                EXCEPT !.user = user, !.api = apiOk,
                       !.input = <<new_name, new_loc>>,
                       !.before = HeadersOf(sheet)]
    IN /\ Len(sheet) < MaxRows
       /\ apiOk => Len(audit) < MaxAudit
       /\ ExpanderReached(df)
       /\ IF new_name = Empty \/ new_loc = Empty
          THEN \* st.error: nothing is written
               /\ cache' = c1
               /\ last' = [h EXCEPT !.outcome = "rejected"]
               /\ UNCHANGED <<sheet, audit>>
          ELSE /\ sheet' = AppendRow(sheet, payload)
               /\ audit' = IF apiOk THEN AppendAudit(audit, log) ELSE audit
               /\ cache' = IF apiOk THEN NoCache ELSE c1
               /\ last' = [h EXCEPT !.outcome = "append", !.pos = Len(sheet'),
                                    !.wrote = TRUE]
       /\ UNCHANGED <<now, procs>>

NextPage ==
    \/ Tick
    \/ LoadPage
    \/ \E user \in Users, r \in 1..MaxRows, new_qty \in 0..MaxQty,
          new_note \in Notes, apiOk \in BOOLEAN :
            Save(user, r, new_qty, new_note, apiOk)
    \/ \E user \in Users, new_name \in Names, new_loc \in Locs,
          new_qty_val \in 0..MaxQty, new_note_val \in Notes, apiOk \in BOOLEAN :
            AddItem(user, new_name, new_loc, new_qty_val, new_note_val, apiOk)

SpecPage == InitPage /\ [][NextPage]_vars

-----------------------------------------------------------------------------
(* Two sessions inside append_row / upsert_row at once: every call of the   *)
(* Sheets API is a step of its own.                                         *)

RaceRecords ==
    {<<<<COL_NAME, S("A")>>, <<COL_LOC, S("A")>>>>,
     <<<<COL_NAME, S("B")>>, <<COL_LOC, S("A")>>, <<COL_QTY, S("1")>>>>,
     <<<<COL_NAME, S("A")>>, <<COL_LOC, S("A")>>, <<COL_NOTE, S("n")>>>>}

RaceInitSheets ==
    {<<HRow(<<COL_NAME, COL_LOC>>)>> \o [i \in 1..k |-> DRow(<<S("A"), S("A")>>)] :
        k \in 1..2}

InitRace ==
    /\ sheet \in RaceInitSheets
    /\ audit = <<>>
    /\ cache = NoCache
    /\ now = 0
    /\ procs = [p \in Procs |-> Idle]
    /\ last = Last0

\* p enters append_row or upsert_row (ensure_worksheet finds the worksheet)
Begin(p, op, rec) ==
    /\ procs[p].pc = "idle"
    /\ procs[p].calls < MaxCalls
    /\ procs' = [procs EXCEPT ![p] = [procs[p] EXCEPT !.pc = "get", !.op = op,
                                          !.rec = rec,
                                          !.keys = <<COL_NAME, COL_LOC>>]]
    /\ last' = Last("begin", <<>>, rec, "none", 0)
    /\ UNCHANGED <<sheet, audit, cache, now>>

\* _normalize_headers, lines 90-98: values = ws.get_all_values()
GetHeaders(p) ==
    /\ procs[p].pc = "get"
    /\ LET headers == HeadersOf(sheet)
           missing == Missing(procs[p].rec, headers)
       IN procs' = [procs EXCEPT ![p].headers = headers,
                                 ![p].missing = missing,
                                 ![p].pc = IF missing # <<>> THEN "delete"
                                           ELSE "write"]
    /\ last' = Last("get_all_values", <<>>, NoRec, "none", 0)
    /\ UNCHANGED <<sheet, audit, cache, now>>

\* _normalize_headers, line 101: ws.delete_rows(1)
DeleteHeader(p) ==
    /\ procs[p].pc = "delete"
    /\ sheet' = DeleteRow1(sheet)
    /\ procs' = [procs EXCEPT ![p].pc = "insert"]
    /\ last' = Last("delete_rows", <<>>, NoRec, "none", 1)
    /\ UNCHANGED <<audit, cache, now>>

\* _normalize_headers, lines 102-103: ws.insert_row(new_headers, 1)
InsertHeader(p) ==
    /\ procs[p].pc = "insert"
    /\ LET new_headers == NewHeaders(procs[p].headers, procs[p].missing)
       IN /\ sheet' = InsertRow1(sheet, new_headers)
          /\ procs' = [procs EXCEPT ![p].headers = new_headers,
                                    ![p].pc = "write"]
    /\ last' = Last("insert_row", <<>>, NoRec, "none", 1)
    /\ UNCHANGED <<audit, cache, now>>

\* the rest of the call: append_row lines 116-117, upsert_row lines 133-158
Write(p) ==
    /\ procs[p].pc = "write"
    /\ IF procs[p].op = "append_row"
       THEN /\ sheet' = AppendValues(sheet, RowOf(procs[p].rec, procs[p].headers))
            /\ last' = Last("append_row", <<>>, procs[p].rec, "append", Len(sheet'))
            /\ UNCHANGED cache
       ELSE LET u == UpsertBody(cache, sheet, procs[p].headers, procs[p].keys,
                                procs[p].rec)
            IN /\ sheet' = u.ws
               /\ cache' = u.cache
               /\ last' = Last("upsert_row", procs[p].keys, procs[p].rec,
                               u.outcome, u.pos)
    /\ procs' = [procs EXCEPT ![p] = [Idle EXCEPT !.calls = procs[p].calls + 1]]
    /\ UNCHANGED <<audit, now>>

NextRace ==
    \/ \E p \in Procs, op \in {"append_row", "upsert_row"}, rec \in RaceRecords :
          Begin(p, op, rec)
    \/ \E p \in Procs : GetHeaders(p)
    \/ \E p \in Procs : DeleteHeader(p)
    \/ \E p \in Procs : InsertHeader(p)
    \/ \E p \in Procs : Write(p)

SpecRace == InitRace /\ [][NextRace]_vars

-----------------------------------------------------------------------------
(* What the claims speak of *)

\* the rows under the header, as stored
NumDataRows(ws) == IF ws = <<>> THEN 0 ELSE Len(ws) - 1

\* the stored text of column k in worksheet row r (r >= 2); a blank cell is
\* the empty text
StoredCell(ws, r, k) ==
    LET h == HeadersOf(ws)
    IN GetAllValues(ws)[r][CHOOSE i \in 1..Len(h) : h[i] = k]

\* worksheet row r has, in every key column, the text of the record's value
StoredRowMatches(ws, r, keyCols, rec) ==
    \A i \in 1..Len(keyCols) :
        /\ InSeq(keyCols[i], HeadersOf(ws))
        /\ StoredCell(ws, r, keyCols[i]) = Text(Get(rec, keyCols[i], Empty))

\* the first worksheet row that matches, 0 when none does
StoredMatch(ws, keyCols, rec) ==
    LET hits == {r \in 2..Len(ws) : StoredRowMatches(ws, r, keyCols, rec)}
    IN IF hits = {} THEN 0 ELSE CHOOSE r \in hits : \A q \in hits : r <= q

NoDup(s) == \A i, j \in 1..Len(s) : s[i] = s[j] => i = j

IsPrefix(s, t) == Len(s) <= Len(t) /\ SubSeq(t, 1, Len(s)) = s

\* the step is a call of op
Called(op) == last'.n # last.n /\ last'.op = op

\* worksheet row r of ws2 holds the record, and every other row of ws1 is
\* where and what it was (a grown header aside)
OverwrittenAt(ws1, ws2, r, rec) ==
    /\ Len(ws2) = Len(ws1)
    /\ GetAllValues(ws2)[r] = Texts(RowOf(rec, HeadersOf(ws2)))
    /\ \A q \in 2..Len(ws1) : q # r => ws2[q] = ws1[q]

-----------------------------------------------------------------------------
(* C1: upsert_row with key columns matching a stored data row overwrites    *)
(* the first such row where it is and leaves the number of data rows as it  *)
(* was; with no matching row it adds exactly one data row; never both.      *)
(* (Key columns that neither the header nor the record names are the        *)
(* caller's error and left aside.)                                          *)
C1_UpsertOverwritesOrAppends ==
    [][(Called("upsert_row")
          /\ \A i \in 1..Len(last'.keys) :
                 \/ InSeq(last'.keys[i], HeadersOf(sheet))
                 \/ last'.keys[i] \in KeySet(last'.rec))
         =>
         LET m == StoredMatch(sheet, last'.keys, last'.rec)
         IN IF m # 0
            THEN OverwrittenAt(sheet, sheet', m, last'.rec)
            ELSE NumDataRows(sheet') = NumDataRows(sheet) + 1]_vars

(* C2: upsert_row called twice in a row with the same key columns and       *)
(* record leaves the worksheet as the first call left it, also within the   *)
(* 5 seconds an entry of the read_df cache lives.                           *)
C2_UpsertIdempotent ==
    [][(Called("upsert_row") /\ last.op = "upsert_row"
          /\ last'.keys = last.keys /\ last'.rec = last.rec)
         => GetAllValues(sheet') = GetAllValues(sheet)]_vars

(* C4: a write leaves a header that starts with the header it found, names  *)
(* every key of the record, the new ones added at the end in the record's   *)
(* order, and no column twice; so no column is ever removed.                *)
C4_HeaderOnlyGrows ==
    /\ NoDup(HeadersOf(sheet))
    /\ last.op \in {"append_row", "upsert_row"} =>
          LET h == HeadersOf(sheet)
          IN /\ IsPrefix(last.before, h)
             /\ \A k \in KeySet(last.rec) : InSeq(k, h)
             /\ SubSeq(h, Len(last.before) + 1, Len(h))
                    = Missing(last.rec, last.before)

\* a call found the header (name, loc) and left (name, loc, qty)
C4_Witness ==
    /\ last.op \in {"append_row", "upsert_row"}
    /\ last.before = <<COL_NAME, COL_LOC>>
    /\ HeadersOf(sheet) = <<COL_NAME, COL_LOC, COL_QTY>>
    /\ NumDataRows(sheet) >= 2

(* C10: read fresh, a record whose value for a key column is empty or       *)
(* absent matches the first stored row whose cell in that column is blank   *)
(* (the other key columns being equal): that row is overwritten and no row  *)
(* is added.                                                                *)
C10_BlankKeyMatches ==
    [][(Called("upsert_row") /\ ~CacheHit(cache)
          /\ \E i \in 1..Len(last'.keys) :
                 Text(Get(last'.rec, last'.keys[i], Empty)) = Empty)
         => LET m == StoredMatch(sheet, last'.keys, last'.rec)
            IN m # 0 => OverwrittenAt(sheet, sheet', m, last'.rec)]_vars

\* the stored text of column k in worksheet row r, "" when the worksheet
\* has no such column
StoredOr(ws, r, k) ==
    IF InSeq(k, HeadersOf(ws)) THEN StoredCell(ws, r, k) ELSE Empty

\* the records of Audit_Log
AuditRecords(ws) == IF ws = <<>> THEN <<>> ELSE Tail(GetAllValues(ws))

\* the rows stored as data
DataCount(ws) == Cardinality({i \in 1..Len(ws) : ws[i].kind = "D"})

(* C3: a Save by the session of operator U overwrites a stored row only if  *)
(* the operator stored in that row, when it is overwritten, is blank or U   *)
(* (both trimmed, case kept).                                               *)
C3_SaveOnlyOwnRows ==
    [][(Called("save") /\ last'.outcome = "update")
         => LET o == StoredOr(sheet, last'.pos, COL_OWNER)
            IN Strip(o) = Empty \/ Strip(o) = Strip(last'.user)]_vars

(* C5: a Save on an editable row, read fresh and with the Sheets API        *)
(* serving, leaves the row with the new quantity and the session's          *)
(* operator, and adds exactly one audit record (quantity column, old text,  *)
(* new text, operator) when the old and new quantity texts differ, none     *)
(* when they are equal; so for a row whose quantity is blank.               *)
C5_SaveAuditsQuantityChange ==
    [][(Called("save") /\ last'.api /\ ~CacheHit(cache))
         => LET r == last'.row
                old == StoredOr(sheet, r, COL_QTY)
                new == Text(Get(last'.rec, COL_QTY, Empty))
                record == <<TimeText(now), Device,
                            ExtractZone(StoredOr(sheet, r, COL_LOC)),
                            StoredOr(sheet, r, COL_NAME), COL_QTY, old, new,
                            last'.user>>
            IN /\ StoredOr(sheet', r, COL_QTY) = new
               /\ StoredOr(sheet', r, COL_OWNER) = last'.user
               /\ AuditRecords(audit') =
                      IF old # new THEN Append(AuditRecords(audit), record)
                      ELSE AuditRecords(audit)]_vars

(* C6: an add-new-item whose name or location is empty or only white space  *)
(* writes nothing: the device worksheet and Audit_Log stay as they are.     *)
C6_BlankAddRejected ==
    [][(Called("add")
          /\ (Strip(last'.input[1]) = Empty \/ Strip(last'.input[2]) = Empty))
         => (sheet' = sheet /\ audit' = audit)]_vars

(* C7: after a Save or an add-new-item that wrote the device worksheet, the *)
(* next read_df returns the worksheet as stored, also when the audit append *)
(* failed.                                                                  *)
C7_FreshReadAfterWrite ==
    (last.op \in {"save", "add"} /\ last.wrote)
        => ReadDf(cache, sheet) = FreshDf(sheet)

(* C8: whatever the interleaving of two sessions' append_row / upsert_row   *)
(* calls, no step removes a stored data row.                                *)
C8_NoDataRowLost ==
    [][DataCount(sheet') >= DataCount(sheet)]_vars

(* C9: no two stored rows share item name and location, and the row a Save  *)
(* overwrites is the row that was rendered and edited.                      *)
C9_KeysStayUnique ==
    /\ \A p, q \in 2..Len(sheet) :
          (/\ StoredOr(sheet, p, COL_NAME) = StoredOr(sheet, q, COL_NAME)
           /\ StoredOr(sheet, p, COL_LOC) = StoredOr(sheet, q, COL_LOC))
             => p = q
    /\ (last.op = "save" /\ last.outcome = "update") => last.pos = last.row

=============================================================================

